---- MODULE Spec2Model ----
(***************************************************************************)
(* gaia_visualizer: the offline flow aggregation (create_migration_data,   *)
(* an R script) and the in-browser view state of App.tsx / EurasiaMap.tsx. *)
(*                                                                         *)
(* SpecFlow runs create_migration_data on bounded flux arrays.             *)
(* Spec     runs the React components: the hexagon dataset load of         *)
(*          EurasiaMap and the click handlers of App.                      *)
(***************************************************************************)
EXTENDS Integers, Sequences, FiniteSets, TLC

VARIABLES
    flux_thru_time,   \* the 3-D array read at part_001:7, [X, Z, v]
    flux,             \* the 2-D average matrix read at part_001:6
    migration_data,   \* the value bound at part_001:56 (or the R error)
    \* App.tsx
    showRightSidebar, \* App.tsx:37
    showLeftSidebar,  \* App.tsx:38
    selectedPoint,    \* App.tsx:43, a PointData or Null
    \* EurasiaMap.tsx
    showArcs,         \* the showArcs prop, EurasiaMap.tsx:41
    hexagonData,      \* EurasiaMap.tsx:159, a decoded payload or Null
    isLoading,        \* EurasiaMap.tsx:160
    arcData,          \* EurasiaMap.tsx:161
    loadPc,           \* where loadHexagonData (EurasiaMap.tsx:164-175) stands
    fetchCount,       \* calls of fetch(hexagonDataPath) made so far
    consoleErrors,    \* the messages passed to console.error so far
    mounted,          \* EurasiaMap is mounted (React has not torn it down)
    viewState,        \* EurasiaMap.tsx:156
    pointHoverInfo,   \* EurasiaMap.tsx:157
    hexagonHoverInfo, \* EurasiaMap.tsx:158
    colorFeature,     \* the feature getFillColor is called with
    fillColor,        \* what getContinentColor returned for it
    arcWeight,        \* the weight of the arc getWidth is called with
    arcWidth,         \* what getWidth returned for it
    coords,           \* part_000: the table fread() returns
    coords_dt,        \* part_000: the binding of the name coords_dt, if any
    coords_wgs84_sf,  \* part_000: the transformed points
    coords_wgs84_dt,  \* part_000: the extracted table
    coords_wgs84_json,\* part_000: the records written to coords_wgs84.json
    reprojPc,         \* part_000: how far the script has run
    joinFeatures,     \* the hexagon features the lookup is built from
    joinFlows,        \* the flow records of the selected slice
    centroidLookup,   \* state_id -> [longitude, latitude]
    flowsWithCoords,  \* the output of the join
    joinWarnings,     \* how many skipped features and dropped records were logged
    joinPc,           \* loaded, lookup built, join done
    leftSidebarWidth, \* App.tsx:47
    rightSidebarWidth,\* App.tsx:48
    isResizing,       \* App.tsx:52
    mouseListeners,   \* the sides of the listener pairs startResizing added to the document
    handlesPressed    \* the handles pressed since the last mouse-up

flowVars == <<flux_thru_time, flux, migration_data>>
appVars == <<showRightSidebar, showLeftSidebar, selectedPoint>>
mapVars == <<showArcs, hexagonData, isLoading, arcData, loadPc, fetchCount, consoleErrors,
             mounted>>
viewVars == <<viewState, pointHoverInfo, hexagonHoverInfo>>
encVars == <<colorFeature, fillColor, arcWeight, arcWidth>>
reprojVars == <<coords, coords_dt, coords_wgs84_sf, coords_wgs84_dt, coords_wgs84_json,
                reprojPc>>
joinVars == <<joinFeatures, joinFlows, centroidLookup, flowsWithCoords, joinWarnings,
              joinPc>>
pureVars == <<encVars, reprojVars, joinVars>>
resizeVars == <<leftSidebarWidth, rightSidebarWidth, isResizing, mouseListeners,
                handlesPressed>>
pageVars == <<appVars, mapVars, viewVars, resizeVars>>

----------------------------------------------------------------------------
(* Bounds of the flow inputs *)

MaxX == 2        \* regions: dim(migration_array)[1] ranges over 0..MaxX
MaxZ == 2        \* time steps: dim(migration_array)[3] ranges over 0..MaxZ
MaxHot == 2      \* at most MaxHot entries of the two inputs are non-zero

\* the non-zero magnitudes an entry may carry (negative, and two positives)
NonZeroVals == {-1, 3, 5}

----------------------------------------------------------------------------
(* R semantics used by create_migration_data *)

\* a:b, R's colon operator: ascending when a <= b, DESCENDING otherwise,
\* so 1:0 is the two-element vector (1, 0) and not the empty vector.
Colon(a, b) ==
    IF a <= b THEN [k \in 1..(b - a + 1) |-> a + k - 1]
              ELSE [k \in 1..(a - b + 1) |-> a - k + 1]

\* the nested loops `for(i in 1:X) for(j in 1:X)`: the pairs in visiting order
PairOrder_ColumnMajor(X) ==
    LET s == Colon(1, X)
        n == Len(s)
    IN  [k \in 1..(n * n) |-> <<s[((k - 1) % n) + 1], s[((k - 1) \div n) + 1]>>]

PairOrder(X) ==
    LET s == Colon(1, X)
        n == Len(s)
    IN  [k \in 1..(n * n) |-> <<s[((k - 1) \div n) + 1], s[((k - 1) % n) + 1]>>]

\* migration_array[ , , t] as a matrix; a subscript outside the array's extent
\* is outside the DOMAIN of the slice
Slice(arr, t) ==
    IF t \in 1..arr.Z
    THEN [p \in (1..arr.X) \X (1..arr.X) |-> arr.v[<<p[1], p[2], t>>]]
    ELSE [p \in {} |-> 0]

\* `i != j && M[i,j] > 0` raises an R error: && short-circuits on i == j,
\* otherwise the subscript is evaluated and must lie inside the array
CondErrors(M, i, j) == i # j /\ <<i, j>> \notin DOMAIN M

\* `i != j && M[i,j] > 0` is TRUE
CondHolds_NoSelfCheck(M, i, j) == <<i, j>> \in DOMAIN M /\ M[<<i, j>>] > 0

CondHolds_Ge(M, i, j) == i # j /\ <<i, j>> \in DOMAIN M /\ M[<<i, j>>] >= 0

CondHolds(M, i, j) == i # j /\ <<i, j>> \in DOMAIN M /\ M[<<i, j>>] > 0

\* list(source_id = as.character(i), target_id = as.character(j), value = v)
MakeFlow_ZeroBased(i, j, v) ==
    [source_id |-> ToString(i - 1), target_id |-> ToString(j - 1), value |-> v]

MakeFlow(i, j, v) ==
    [source_id |-> ToString(i), target_id |-> ToString(j), value |-> v]

\* the body of the two pair loops: flows[[length(flows) + 1]] <- flow
RECURSIVE ScanPairs(_, _, _, _)
ScanPairs(M, pairs, k, flows) ==
    IF k > Len(pairs) THEN [status |-> "ok", flows |-> flows]
    ELSE LET i == pairs[k][1]
             j == pairs[k][2]
         IN  IF CondErrors(M, i, j) THEN [status |-> "error", flows |-> flows]
             ELSE IF CondHolds(M, i, j)
                  THEN ScanPairs(M, pairs, k + 1,
                                 Append(flows, MakeFlow(i, j, M[<<i, j>>])))
                  ELSE ScanPairs(M, pairs, k + 1, flows)

\* flows_by_time[[t]] <- flows on an R list: t < 1 is an error, t beyond the
\* end extends the list (NULL-padded)
ListAssign(l, t, v) ==
    IF t < 1 THEN [status |-> "error", list |-> l]
    ELSE IF t <= Len(l) THEN [status |-> "ok", list |-> [l EXCEPT ![t] = v]]
    ELSE [status |-> "ok",
          list |-> [k \in 1..t |-> IF k <= Len(l) THEN l[k]
                                   ELSE IF k = t THEN v ELSE <<"NULL">>]]

\* for(t in 1:Z) { ... flows_by_time[[t]] <- flows }
RECURSIVE TimeLoop(_, _, _, _)
TimeLoop(arr, ts, k, flows_by_time) ==
    IF k > Len(ts) THEN [status |-> "ok", list |-> flows_by_time]
    ELSE LET t == ts[k]
             r == ScanPairs(Slice(arr, t), PairOrder(arr.X), 1, <<>>)
         IN  IF r.status = "error" THEN [status |-> "error", list |-> flows_by_time]
             ELSE LET a == ListAssign(flows_by_time, t, r.flows)
                  IN  IF a.status = "error" THEN a
                      ELSE TimeLoop(arr, ts, k + 1, a.list)

\* the average-flux loops
AvgFlows_FromFirstSlice(migration_array, avg_migration_matrix) ==
    ScanPairs(Slice(migration_array, 1), PairOrder(migration_array.X), 1, <<>>)

AvgFlows(migration_array, avg_migration_matrix) ==
    ScanPairs(avg_migration_matrix, PairOrder(migration_array.X), 1, <<>>)

\* create_migration_data(migration_array, avg_migration_matrix): the returned
\* list, or status "error" when R stops the call
create_migration_data(migration_array, avg_migration_matrix) ==
    LET Z  == migration_array.Z
        ts == TimeLoop(migration_array, Colon(1, Z), 1, <<>>)
        av == AvgFlows(migration_array, avg_migration_matrix)
    IN  IF ts.status = "error" \/ av.status = "error"
        THEN [status |-> "error"]
        ELSE [status |-> "ok", time_series |-> ts.list, average_flux |-> av.flows]

----------------------------------------------------------------------------
(* Bounds of the browser model *)

NumPoints == 2     \* records of coords_wgs84.json
MaxFeatures == 2   \* features of a fetched FeatureCollection
ArcCount == 2      \* the `count` of generateRandomArcs (its default is 50)

\* the value Math.random() * 10 is represented by: the draw feeds only the
\* colour and the width of an arc, which are evaluated on their own over
\* 0..MaxWeight
Weights == {9}

\* the most camera fields a partial view-state change event carries
MaxPartial == 1

\* the largest arc weight getWidth is evaluated at
MaxWeight == 4

\* the most rows of sample-coords.csv, and of a table left under the name
\* coords_dt by an earlier run in the same R session
MaxRows == 2

\* the most hexagon features and flow records of the join
MaxJoinFeatures == 2
MaxFlows == 2

\* the most mouse-downs on resize handles before a mouse-up
MaxDowns == 2

----------------------------------------------------------------------------
(* Data *)

\* JavaScript null
Null == [isNull |-> TRUE]

\* coords_wgs84.json: one PointData per node, node ids distinct
pointData ==
    [n \in 1..NumPoints |-> [node_id |-> n, longitude |-> 10 * n, latitude |-> n]]

Centerpoint(n) == [longitude |-> 20 * n, latitude |-> 2 * n]

\* the shapes the n-th feature of a payload may have: a usable centerpoint,
\* properties null, no centerpoint key, centerpoint null, centerpoint without
\* latitude
FeatureShapes(n) ==
    { [properties |-> [state_id |-> n, centerpoint |-> Centerpoint(n)]],
      [properties |-> Null],
      [properties |-> [state_id |-> n]],
      [properties |-> [state_id |-> n, centerpoint |-> Null]],
      [properties |-> [state_id |-> n, centerpoint |-> [longitude |-> 20 * n]]] }

FeatureLists ==
    UNION {{fs \in [1..len -> UNION {FeatureShapes(n) : n \in 1..len}] :
              \A n \in 1..len : fs[n] \in FeatureShapes(n)} : len \in 0..MaxFeatures}

\* what `await response.json()` may yield: a FeatureCollection, or some other
\* JSON object (the body of an error reply), which has no `features`
Payloads ==
    {[type |-> "FeatureCollection", features |-> fs] : fs \in FeatureLists}
        \cup {[error |-> "Not Found"]}

----------------------------------------------------------------------------
(* EurasiaMap.tsx *)

\* hasValidProperties(feature)
hasValidProperties(feature) ==
    /\ feature.properties # Null
    /\ "centerpoint" \in DOMAIN feature.properties
    /\ feature.properties.centerpoint # Null
    /\ "longitude" \in DOMAIN feature.properties.centerpoint
    /\ "latitude" \in DOMAIN feature.properties.centerpoint

\* features.filter(hasValidProperties)
validFeatures(hexData) == SelectSeq(hexData.features, hasValidProperties)

\* generateRandomArcs(data) throws a TypeError: data.features is undefined
generateRandomArcsThrows(hexData) == "features" \notin DOMAIN hexData

\* generateRandomArcs(data, count): the lists it may return, one per outcome
\* of its Math.random() draws
generateRandomArcs_OneIsEnough(hexData, count) ==
    LET valid == validFeatures(hexData)
    IN  IF Len(valid) < 1 THEN {<<>>}
        ELSE [1..count ->
                {[source |-> <<valid[a].properties.centerpoint.longitude,
                               valid[a].properties.centerpoint.latitude>>,
                  target |-> <<valid[b].properties.centerpoint.longitude,
                               valid[b].properties.centerpoint.latitude>>,
                  weight |-> w] : a \in 1..Len(valid), b \in 1..Len(valid), w \in Weights}]

generateRandomArcs(hexData, count) ==
    LET valid == validFeatures(hexData)
    IN  IF Len(valid) < 2 THEN {<<>>}
        ELSE [1..count ->
                {[source |-> <<valid[a].properties.centerpoint.longitude,
                               valid[a].properties.centerpoint.latitude>>,
                  target |-> <<valid[b].properties.centerpoint.longitude,
                               valid[b].properties.centerpoint.latitude>>,
                  weight |-> w] : a \in 1..Len(valid), b \in 1..Len(valid), w \in Weights}]

\* the console.error of generateRandomArcs (line 69)
generateRandomArcsLogs(hexData) ==
    IF Len(validFeatures(hexData)) < 2
    THEN {"Not enough valid features to generate arcs"} ELSE {}

\* INITIAL_VIEW_STATE; zoom is kept in tenths (2.5 is 25)
INITIAL_VIEW_STATE ==
    [longitude |-> 75, latitude |-> 30, zoom |-> 25, pitch |-> 45, bearing |-> 0]

\* the features getFillColor may be handed: no properties, properties null,
\* properties without continent_id, and a continent_id that is one of the six
\* of the table or is not
ContinentIds == {"EU", "AS_N", "AS_S", "AF_N", "AF_S", "ME", "NA", "eu", ""}

ColorFeatures ==
    {[type |-> "Feature"],
     [type |-> "Feature", properties |-> Null],
     [type |-> "Feature", properties |-> [state_id |-> 1]]}
        \cup {[type |-> "Feature", properties |-> [state_id |-> 1, continent_id |-> c]] :
                 c \in ContinentIds}

\* feature.properties?.continent_id: undefined, or the value
Undefined == [defined |-> FALSE]

continentIdOf(feature) ==
    IF "properties" \notin DOMAIN feature THEN Undefined
    ELSE IF feature.properties = Null THEN Undefined
    ELSE IF "continent_id" \notin DOMAIN feature.properties THEN Undefined
    ELSE [defined |-> TRUE, value |-> feature.properties.continent_id]

\* `case c:` of the switch, a strict comparison
IsCase(continentId, c) == continentId.defined /\ continentId.value = c

\* getContinentColor(feature)
getContinentColor_NoMiddleEast(feature) ==
    LET continentId == continentIdOf(feature) IN
    CASE IsCase(continentId, "EU") -> <<65, 105, 225, 40>>
      [] IsCase(continentId, "AS_N") -> <<220, 20, 60, 40>>
      [] IsCase(continentId, "AS_S") -> <<255, 140, 0, 40>>
      [] IsCase(continentId, "AF_N") -> <<154, 205, 50, 40>>
      [] IsCase(continentId, "AF_S") -> <<138, 43, 226, 40>>
      [] OTHER -> <<128, 128, 128, 40>>

getContinentColor(feature) ==
    LET continentId == continentIdOf(feature) IN
    CASE IsCase(continentId, "EU") -> <<65, 105, 225, 40>>
      [] IsCase(continentId, "AS_N") -> <<220, 20, 60, 40>>
      [] IsCase(continentId, "AS_S") -> <<255, 140, 0, 40>>
      [] IsCase(continentId, "AF_N") -> <<154, 205, 50, 40>>
      [] IsCase(continentId, "AF_S") -> <<138, 43, 226, 40>>
      [] IsCase(continentId, "ME") -> <<64, 224, 208, 40>>
      [] OTHER -> <<128, 128, 128, 40>>

\* ArcLayer getWidth: d => 1 + d.weight * 2
getWidth(weight) == 1 + weight * 2

\* useState(true) for isLoading
InitialIsLoading_False == FALSE

InitialIsLoading == TRUE

\* the `layers` memo
layers_ArcsAlways ==
    IF hexagonData = Null THEN <<>>
    ELSE <<[id |-> "hexagon-layer", data |-> hexagonData],
           [id |-> "point-layer", data |-> pointData],
           [id |-> "arc-layer", data |-> arcData]>>

layers ==
    IF hexagonData = Null THEN <<>>
    ELSE <<[id |-> "hexagon-layer", data |-> hexagonData],
           [id |-> "point-layer", data |-> pointData]>>
         \o (IF showArcs THEN <<[id |-> "arc-layer", data |-> arcData]>> ELSE <<>>)

\* what the component returns: the placeholder while isLoading, else DeckGL
\* with the layers; an unmounted component renders nothing
Rendered ==
    IF ~mounted THEN [view |-> "unmounted", layers |-> <<>>]
    ELSE IF isLoading THEN [view |-> "Loading map data...", layers |-> <<>>]
    ELSE [view |-> "DeckGL", layers |-> layers]

LayerRendered(id) == \E k \in 1..Len(Rendered.layers) : Rendered.layers[k].id = id

\* the features the rendered hexagon layer draws
HexagonFeaturesRendered ==
    IF LayerRendered("hexagon-layer") /\ "features" \in DOMAIN hexagonData
    THEN Len(hexagonData.features) ELSE 0

\* the state setters of useState: React drops an update of a component it
\* has unmounted, so the call changes nothing then
SetHexagonData_Unconditional(v) == hexagonData' = v

SetHexagonData(v) == hexagonData' = IF mounted THEN v ELSE hexagonData

SetArcData(v) == arcData' = IF mounted THEN v ELSE arcData

SetIsLoading(v) == isLoading' = IF mounted THEN v ELSE isLoading

\* an effect without the [] dependency list runs again after each render
RunEffect_Rerun ==
    /\ loadPc \in {"mounted", "loaded", "failed"}
    /\ fetchCount < 2
    /\ loadPc' = "fetch"
    /\ fetchCount' = fetchCount + 1
    /\ UNCHANGED <<showArcs, hexagonData, isLoading, arcData, consoleErrors, mounted>>
    /\ UNCHANGED <<appVars, flowVars, pureVars, resizeVars, viewVars>>

\* the effect: loadHexagonData() runs up to `await fetch(hexagonDataPath)`
RunEffect ==
    /\ loadPc = "mounted"
    /\ loadPc' = "fetch"
    /\ fetchCount' = fetchCount + 1
    /\ UNCHANGED <<showArcs, hexagonData, isLoading, arcData, consoleErrors, mounted>>
    /\ UNCHANGED <<appVars, flowVars, pureVars, resizeVars, viewVars>>

\* fetch resolves with a response; loadHexagonData goes on to
\* `await response.json()`
FetchResolve ==
    /\ loadPc = "fetch"
    /\ loadPc' = "json"
    /\ UNCHANGED <<showArcs, hexagonData, isLoading, arcData, fetchCount, consoleErrors, mounted>>
    /\ UNCHANGED <<appVars, flowVars, pureVars, resizeVars, viewVars>>

\* the catch and finally blocks
CatchFinally ==
    /\ consoleErrors' = consoleErrors \cup {"Error loading hexagon data:"}
    /\ SetIsLoading(FALSE)
    /\ loadPc' = "failed"

\* fetch rejects (network failure)
FetchReject ==
    /\ loadPc = "fetch"
    /\ CatchFinally
    /\ UNCHANGED <<showArcs, hexagonData, arcData, fetchCount, mounted>>
    /\ UNCHANGED <<appVars, flowVars, pureVars, resizeVars, viewVars>>

\* response.json() rejects (the body is not JSON)
JsonReject ==
    /\ loadPc = "json"
    /\ CatchFinally
    /\ UNCHANGED <<showArcs, hexagonData, arcData, fetchCount, mounted>>
    /\ UNCHANGED <<appVars, flowVars, pureVars, resizeVars, viewVars>>

\* response.json() resolves with data: setHexagonData(data);
\* setArcData(generateRandomArcs(data)); finally setIsLoading(false).
\* When generateRandomArcs throws, setHexagonData has already run.
JsonResolveWith(data) ==
    /\ loadPc = "json"
    /\ SetHexagonData(data)
    /\ IF generateRandomArcsThrows(data)
       THEN /\ CatchFinally
            /\ UNCHANGED arcData
       ELSE /\ \E arcs \in generateRandomArcs(data, ArcCount) : SetArcData(arcs)
            /\ consoleErrors' = consoleErrors \cup generateRandomArcsLogs(data)
            /\ SetIsLoading(FALSE)
            /\ loadPc' = "loaded"
    /\ UNCHANGED <<showArcs, fetchCount, mounted>>
    /\ UNCHANGED <<appVars, flowVars, pureVars, resizeVars, viewVars>>

JsonResolve == \E data \in Payloads : JsonResolveWith(data)

\* the camera fields of MapViewState
CameraFields == {"longitude", "latitude", "zoom", "pitch", "bearing"}

\* the values a view-state change event reports for a field
EventValues == {0, 7}

\* the viewState objects DeckGL hands to onViewStateChange: the complete
\* ones, and the partial ones of up to MaxPartial fields
ViewEvents ==
    UNION {[fs -> EventValues] :
              fs \in {g \in SUBSET CameraFields :
                         Cardinality(g) <= MaxPartial \/ g = CameraFields}}

\* newViewState.f || viewState.f
SafeField_Or(newViewState, f) ==
    IF f \in DOMAIN newViewState /\ newViewState[f] # 0
    THEN newViewState[f] ELSE viewState[f]

\* newViewState.f ?? viewState.f
SafeField(newViewState, f) ==
    IF f \in DOMAIN newViewState THEN newViewState[f] ELSE viewState[f]

\* DeckGL.onViewStateChange: DeckGL is on screen only after the placeholder
OnViewStateChange(newViewState) ==
    /\ Rendered.view = "DeckGL"
    /\ viewState' = [f \in CameraFields |-> SafeField(newViewState, f)]
    /\ UNCHANGED <<pointHoverInfo, hexagonHoverInfo>>
    /\ UNCHANGED <<appVars, mapVars, flowVars, pureVars, resizeVars>>

\* where the pointer is when a hover event fires
HoverPositions == {[x |-> 3, y |-> 4]}

\* the objects the hexagon layer can pick: the features of its data
HexagonObjects ==
    IF LayerRendered("hexagon-layer") /\ "features" \in DOMAIN hexagonData
    THEN {hexagonData.features[k] : k \in 1..Len(hexagonData.features)}
    ELSE {}

\* GeoJsonLayer.onHover: object is the picked feature, or null when the
\* pointer is over none
OnHexagonHover(object, pos) ==
    /\ LayerRendered("hexagon-layer")
    /\ hexagonHoverInfo' =
           IF object # Null THEN [object |-> object, x |-> pos.x, y |-> pos.y] ELSE Null
    /\ UNCHANGED <<viewState, pointHoverInfo>>
    /\ UNCHANGED <<appVars, mapVars, flowVars, pureVars, resizeVars>>

\* ScatterplotLayer.onHover
OnPointHover(object, pos) ==
    /\ LayerRendered("point-layer")
    /\ pointHoverInfo' =
           IF object # Null THEN [object |-> object, x |-> pos.x, y |-> pos.y] ELSE Null
    /\ UNCHANGED <<viewState, hexagonHoverInfo>>
    /\ UNCHANGED <<appVars, mapVars, flowVars, pureVars, resizeVars>>

HoverHexagon ==
    \E object \in HexagonObjects \cup {Null}, pos \in HoverPositions :
        OnHexagonHover(object, pos)

HoverPoint ==
    \E n \in 0..NumPoints, pos \in HoverPositions :
        OnPointHover(IF n = 0 THEN Null ELSE pointData[n], pos)

AnyViewStateChange == \E newViewState \in ViewEvents : OnViewStateChange(newViewState)

----------------------------------------------------------------------------
(* App.tsx *)

\* handlePointClick(point)
handlePointClick_AlwaysSelect(point) ==
    /\ selectedPoint' = point
    /\ showLeftSidebar' = TRUE

handlePointClick_ReopenCollapsed(point) ==
    IF selectedPoint # Null /\ selectedPoint.node_id = point.node_id /\ showLeftSidebar
    THEN /\ selectedPoint' = Null
         /\ showLeftSidebar' = FALSE
    ELSE /\ selectedPoint' = point
         /\ showLeftSidebar' = TRUE

handlePointClick(point) ==
    IF selectedPoint # Null /\ selectedPoint.node_id = point.node_id
    THEN /\ selectedPoint' = Null
         /\ showLeftSidebar' = FALSE
    ELSE /\ selectedPoint' = point
         /\ showLeftSidebar' = TRUE

\* ScatterplotLayer.onClick on the marker of `point`: the point layer is on
\* screen, and onPointClick is App's handlePointClick
ClickPoint_HidesArcs(point) ==
    /\ LayerRendered("point-layer")
    /\ handlePointClick(point)
    /\ showArcs' = FALSE
    /\ UNCHANGED <<hexagonData, isLoading, arcData, loadPc, fetchCount, consoleErrors, mounted>>
    /\ UNCHANGED <<showRightSidebar, flowVars, pureVars, resizeVars, viewVars>>

ClickPoint(point) ==
    /\ LayerRendered("point-layer")
    /\ handlePointClick(point)
    /\ UNCHANGED <<showRightSidebar, mapVars, flowVars, pureVars, resizeVars, viewVars>>

ClickAnyPoint == \E n \in 1..NumPoints : ClickPoint(pointData[n])

\* the left toggle button, rendered only while a point is selected
ToggleLeftSidebar_Unguarded ==
    /\ showLeftSidebar' = ~showLeftSidebar
    /\ UNCHANGED <<showRightSidebar, selectedPoint, mapVars, flowVars, pureVars, resizeVars, viewVars>>

ToggleLeftSidebar ==
    /\ selectedPoint # Null
    /\ showLeftSidebar' = ~showLeftSidebar
    /\ UNCHANGED <<showRightSidebar, selectedPoint, mapVars, flowVars, pureVars, resizeVars, viewVars>>

\* the right toggle button
ToggleRightSidebar_ClosesLeft ==
    /\ showRightSidebar' = ~showRightSidebar
    /\ showLeftSidebar' = FALSE
    /\ UNCHANGED <<selectedPoint, mapVars, flowVars, pureVars, resizeVars, viewVars>>

ToggleRightSidebar ==
    /\ showRightSidebar' = ~showRightSidebar
    /\ UNCHANGED <<showLeftSidebar, selectedPoint, mapVars, flowVars, pureVars, resizeVars, viewVars>>

\* the control that switches the migration-arc layer: the owner of the map
\* flips the showArcs prop it passes down
ToggleArcs ==
    /\ showArcs' = ~showArcs
    /\ UNCHANGED <<hexagonData, isLoading, arcData, loadPc, fetchCount, consoleErrors, mounted>>
    /\ UNCHANGED <<appVars, flowVars, pureVars, resizeVars, viewVars>>

\* the accessor has not been called yet
NoColor == <<>>
NoWidth == -1

\* the hexagon layer asks for the fill colour of a feature
EvalFillColor ==
    /\ fillColor = NoColor
    /\ fillColor' = getContinentColor(colorFeature)
    /\ UNCHANGED <<colorFeature, arcWeight, arcWidth>>
    /\ UNCHANGED <<pageVars, flowVars, reprojVars, joinVars>>

\* the arc layer asks for the width of an arc
EvalArcWidth ==
    /\ arcWidth = NoWidth
    /\ arcWidth' = getWidth(arcWeight)
    /\ UNCHANGED <<colorFeature, fillColor, arcWeight>>
    /\ UNCHANGED <<pageVars, flowVars, reprojVars, joinVars>>

\* no accessor is being evaluated
IdleEncoding ==
    /\ colorFeature = Null
    /\ fillColor = NoColor
    /\ arcWeight = 0
    /\ arcWidth = NoWidth

----------------------------------------------------------------------------
(* part_000: the reprojection script *)

\* the rows of sample-coords.csv: node_id, X, Y
CoordRows == {[node_id |-> i, X |-> x, Y |-> 3] : i \in {7, 8}, x \in {0, 2}}

CoordTables == UNION {[1..n -> CoordRows] : n \in 1..MaxRows}

\* what the name coords_dt is bound to when the script starts: the script
\* never assigns it, so nothing in a fresh session, or the node_id column of
\* a table an earlier run left in the session
UnboundName == [bound |-> FALSE, node_id |-> <<>>]

AmbientBindings ==
    {UnboundName}
        \cup {[bound |-> TRUE, node_id |-> ids] :
                 ids \in UNION {[1..n -> {7, 8}] : n \in 1..MaxRows}}

\* st_transform(st_as_sf(coords, coords = c("X", "Y"), crs = ee_crs), 4326)
\* on one row: the planar pair goes to a longitude and a latitude (an
\* injective stand-in for the inverse Equal Earth projection about the
\* 100 degree prime meridian), the other columns are carried along
TransformRow(row) ==
    [node_id |-> row.node_id, lon |-> 100 + row.X * 5, lat |-> row.Y * 10]

NoTable == [status |-> "unset", rows |-> <<>>]

\* lines 57-94: fread, st_as_sf, st_transform
ReadAndTransform ==
    /\ reprojPc = "start"
    /\ coords_wgs84_sf' = [k \in 1..Len(coords) |-> TransformRow(coords[k])]
    /\ reprojPc' = "transformed"
    /\ UNCHANGED <<coords, coords_dt, coords_wgs84_dt, coords_wgs84_json>>
    /\ UNCHANGED <<pageVars, flowVars, encVars, joinVars>>

\* data.table(node_id = ids, lon = ..., lat = ...): columns of equal length
\* go side by side, a column of length 1 is recycled, any other length is
\* an error
DataTable(ids, sf) ==
    IF Len(ids) = Len(sf)
    THEN [status |-> "ok",
          rows |-> [k \in 1..Len(sf) |->
                      [node_id |-> ids[k], lon |-> sf[k].lon, lat |-> sf[k].lat]]]
    ELSE IF Len(ids) = 1
    THEN [status |-> "ok",
          rows |-> [k \in 1..Len(sf) |->
                      [node_id |-> ids[1], lon |-> sf[k].lon, lat |-> sf[k].lat]]]
    ELSE [status |-> "error", rows |-> <<>>]

\* lines 97-101: coords_wgs84_dt <- data.table(node_id = coords_dt$node_id, ...).
\* Evaluating an unbound name is an error, and an error ends the script.
ExtractTable ==
    /\ reprojPc = "transformed"
    /\ LET dt == IF coords_dt.bound
                 THEN DataTable(coords_dt.node_id, coords_wgs84_sf)
                 ELSE [status |-> "error", rows |-> <<>>]
       IN IF dt.status = "ok"
          THEN /\ coords_wgs84_dt' = dt
               /\ reprojPc' = "extracted"
          ELSE /\ UNCHANGED coords_wgs84_dt
               /\ reprojPc' = "halted"
    /\ UNCHANGED <<coords, coords_dt, coords_wgs84_sf, coords_wgs84_json>>
    /\ UNCHANGED <<pageVars, flowVars, encVars, joinVars>>

\* lines 104-136: st_write, then points_df built from coords_wgs84_sf and
\* written as CSV and as JSON
WriteOutputs ==
    /\ reprojPc = "extracted"
    /\ coords_wgs84_json' =
           [status |-> "ok",
            rows |-> [k \in 1..Len(coords_wgs84_sf) |->
                        [node_id |-> coords_wgs84_sf[k].node_id,
                         longitude |-> coords_wgs84_sf[k].lon,
                         latitude |-> coords_wgs84_sf[k].lat]]]
    /\ reprojPc' = "written"
    /\ UNCHANGED <<coords, coords_dt, coords_wgs84_sf, coords_wgs84_dt>>
    /\ UNCHANGED <<pageVars, flowVars, encVars, joinVars>>

\* the script is not running
IdleReproject ==
    /\ coords = <<>>
    /\ coords_dt = UnboundName
    /\ coords_wgs84_sf = <<>>
    /\ coords_wgs84_dt = NoTable
    /\ coords_wgs84_json = NoTable
    /\ reprojPc = "idle"

----------------------------------------------------------------------------
(* The centroid lookup and the flow/coordinate join *)

\* the outline of the n-th hexagon: a ring of four corners around (20n, 2n)
Polygon(n) ==
    [type |-> "Polygon",
     ring |-> <<<<20 * n - 2, 2 * n - 1>>, <<20 * n + 2, 2 * n - 1>>,
                <<20 * n + 2, 2 * n + 1>>, <<20 * n - 2, 2 * n + 1>>>>]

\* the shapes the n-th hexagon feature may have: geometry null or a polygon,
\* state_id missing or one of the ids in use
JoinFeatureShapes(n) ==
    {[geometry |-> g, properties |-> [continent_id |-> "EU"]] : g \in {Null, Polygon(n)}}
        \cup {[geometry |-> g, properties |-> [continent_id |-> "EU", state_id |-> i]] :
                 g \in {Null, Polygon(n)}, i \in {1, 2}}

JoinFeatureLists ==
    UNION {{fs \in [1..len -> UNION {JoinFeatureShapes(n) : n \in 1..len}] :
              \A n \in 1..len : fs[n] \in JoinFeatureShapes(n)} : len \in 0..MaxJoinFeatures}

\* the flow records of a slice: string ids, with "3" the id of no hexagon
FlowRecords ==
    {[source_id |-> "1", target_id |-> "2", value |-> 5],
     [source_id |-> "2", target_id |-> "1", value |-> 3],
     [source_id |-> "1", target_id |-> "3", value |-> 5],
     [source_id |-> "3", target_id |-> "2", value |-> 3]}

FlowLists == UNION {[1..len -> FlowRecords] : len \in 0..MaxFlows}

RECURSIVE SumSeq(_, _)
SumSeq(s, k) == IF k = 0 THEN 0 ELSE s[k] + SumSeq(s, k - 1)

\* the centroid of a polygon: the mean of the corners of its ring
Centroid(geometry) ==
    LET ring == geometry.ring
        lons == [k \in 1..Len(ring) |-> ring[k][1]]
        lats == [k \in 1..Len(ring) |-> ring[k][2]]
    IN <<SumSeq(lons, Len(ring)) \div Len(ring), SumSeq(lats, Len(ring)) \div Len(ring)>>

\* a feature enters the lookup when it has a geometry and a state_id
HasCentroid_GeometryOnly(feature) == feature.geometry # Null

HasCentroid(feature) ==
    /\ feature.geometry # Null
    /\ "state_id" \in DOMAIN feature.properties

\* the key a feature is stored under: its state_id as an object key
LookupKey(feature) ==
    IF "state_id" \in DOMAIN feature.properties
    THEN ToString(feature.properties.state_id)
    ELSE "undefined"

\* the lookup after the first k features: each usable feature stores its
\* centroid under its key, a later one overwriting an earlier one
RECURSIVE BuildLookup(_, _)
BuildLookup(features, k) ==
    IF k = 0 THEN [key \in {} |-> <<>>]
    ELSE LET before == BuildLookup(features, k - 1)
             feature == features[k]
         IN IF HasCentroid(feature)
            THEN [key \in DOMAIN before \cup {LookupKey(feature)} |->
                    IF key = LookupKey(feature) THEN Centroid(feature.geometry)
                    ELSE before[key]]
            ELSE before

\* the features without geometry or id, which are skipped and logged
SkippedFeatures(features) ==
    {k \in 1..Len(features) : ~HasCentroid(features[k])}

\* a flow record resolves when both its ids are keys of the lookup
Resolves_SourceOnly(lookup, record) == record.source_id \in DOMAIN lookup

Resolves(lookup, record) ==
    /\ record.source_id \in DOMAIN lookup
    /\ record.target_id \in DOMAIN lookup

\* lookup[id], undefined (the empty tuple) for an id that is no key
Resolve(lookup, id) == IF id \in DOMAIN lookup THEN lookup[id] ELSE <<>>

\* the join: the resolving records, in order, each with its two positions
JoinFlows(lookup, flows) ==
    LET kept == SelectSeq(flows, LAMBDA record : Resolves(lookup, record))
    IN [k \in 1..Len(kept) |->
          [source_id |-> kept[k].source_id, target_id |-> kept[k].target_id,
           value |-> kept[k].value,
           source |-> Resolve(lookup, kept[k].source_id),
           target |-> Resolve(lookup, kept[k].target_id)]]

\* the records the join drops, each logged as a warning
DroppedFlows(lookup, flows) ==
    {k \in 1..Len(flows) : ~Resolves(lookup, flows[k])}

\* the lookup is computed once the hexagon dataset is there
ComputeCentroidLookup ==
    /\ joinPc = "loaded"
    /\ centroidLookup' = BuildLookup(joinFeatures, Len(joinFeatures))
    /\ joinWarnings' = joinWarnings + Cardinality(SkippedFeatures(joinFeatures))
    /\ joinPc' = "lookup"
    /\ UNCHANGED <<joinFeatures, joinFlows, flowsWithCoords>>
    /\ UNCHANGED <<pageVars, flowVars, encVars, reprojVars>>

\* the join runs on the selected flow set against the lookup
ComputeJoin ==
    /\ joinPc = "lookup"
    /\ flowsWithCoords' = JoinFlows(centroidLookup, joinFlows)
    /\ joinWarnings' = joinWarnings + Cardinality(DroppedFlows(centroidLookup, joinFlows))
    /\ joinPc' = "joined"
    /\ UNCHANGED <<joinFeatures, joinFlows, centroidLookup>>
    /\ UNCHANGED <<pageVars, flowVars, encVars, reprojVars>>

\* no join is being computed
IdleJoin ==
    /\ joinFeatures = <<>>
    /\ joinFlows = <<>>
    /\ centroidLookup = [key \in {} |-> <<>>]
    /\ flowsWithCoords = <<>>
    /\ joinWarnings = 0
    /\ joinPc = "idle"

IdlePure == IdleEncoding /\ IdleReproject /\ IdleJoin

\* the sidebar width limits
DEFAULT_SIDEBAR_WIDTH == 320
MIN_SIDEBAR_WIDTH == 200
MAX_SIDEBAR_WIDTH == 600

\* window.innerWidth, and the e.clientX values a mouse event may carry
InnerWidth == 1000
ClientXs == {0, 100, 450, 600, 700, 1000}

Min(a, b) == IF a < b THEN a ELSE b
Max(a, b) == IF a > b THEN a ELSE b

\* Math.min(Math.max(width, MIN_SIDEBAR_WIDTH), MAX_SIDEBAR_WIDTH)
Clamp_NoMax(width) == Max(width, MIN_SIDEBAR_WIDTH)

Clamp(width) == Min(Max(width, MIN_SIDEBAR_WIDTH), MAX_SIDEBAR_WIDTH)

\* the sides of the handleMouseMove closures in a listener list
SidesOf(listeners) == {listeners[k] : k \in 1..Len(listeners)}

\* onMouseDown of a resize handle: startResizing(side) sets isResizing and
\* adds a handleMouseMove/handleMouseUp pair of that side to the document.
\* The left handle exists only inside the block rendered for a selection.
MouseDown(side) ==
    /\ side = "left" => selectedPoint # Null
    /\ Len(mouseListeners) < MaxDowns
    /\ isResizing' = TRUE
    /\ mouseListeners' = Append(mouseListeners, side)
    /\ handlesPressed' = handlesPressed \cup {side}
    /\ UNCHANGED <<leftSidebarWidth, rightSidebarWidth>>
    /\ UNCHANGED <<appVars, mapVars, viewVars, flowVars, pureVars>>

MouseDownOnHandle == \E side \in {"left", "right"} : MouseDown(side)

\* a mousemove on the document: every registered handleMouseMove runs
MouseMove(clientX) ==
    /\ leftSidebarWidth' =
          IF "left" \in SidesOf(mouseListeners) THEN Clamp(clientX) ELSE leftSidebarWidth
    /\ rightSidebarWidth' =
          IF "right" \in SidesOf(mouseListeners)
          THEN Clamp(InnerWidth - clientX) ELSE rightSidebarWidth
    /\ UNCHANGED <<isResizing, mouseListeners, handlesPressed>>
    /\ UNCHANGED <<appVars, mapVars, viewVars, flowVars, pureVars>>

AnyMouseMove == \E clientX \in ClientXs : MouseMove(clientX)

\* handleMouseUp, as run by each registered pair: setIsResizing(false) and
\* the removal of the pair's two listeners
handleMouseUp_KeepsListeners ==
    /\ isResizing' = (IF mouseListeners # <<>> THEN FALSE ELSE isResizing)
    /\ UNCHANGED mouseListeners

handleMouseUp ==
    /\ isResizing' = (IF mouseListeners # <<>> THEN FALSE ELSE isResizing)
    /\ mouseListeners' = <<>>

\* a mouseup on the document: every registered handleMouseUp runs
MouseUp ==
    /\ handleMouseUp
    /\ handlesPressed' = {}
    /\ UNCHANGED <<leftSidebarWidth, rightSidebarWidth>>
    /\ UNCHANGED <<appVars, mapVars, viewVars, flowVars, pureVars>>

\* useState(DEFAULT_SIDEBAR_WIDTH) twice, useState(false); no listener yet
InitResize ==
    /\ leftSidebarWidth = DEFAULT_SIDEBAR_WIDTH
    /\ rightSidebarWidth = DEFAULT_SIDEBAR_WIDTH
    /\ isResizing = FALSE
    /\ mouseListeners = <<>>
    /\ handlesPressed = {}

InitApp ==
    /\ showRightSidebar = TRUE
    /\ showLeftSidebar = FALSE
    /\ selectedPoint = Null

\* the first render of EurasiaMap, before its effect has run
InitMap ==
    /\ showArcs \in BOOLEAN
    /\ hexagonData = Null
    /\ isLoading = InitialIsLoading
    /\ arcData = <<>>
    /\ loadPc = "mounted"
    /\ fetchCount = 0
    /\ consoleErrors = {}
    /\ mounted = TRUE

\* useState(INITIAL_VIEW_STATE), useState(null), useState(null)
InitView ==
    /\ viewState = INITIAL_VIEW_STATE
    /\ pointHoverInfo = Null
    /\ hexagonHoverInfo = Null

\* React tears the component down. The effect returns no cleanup function,
\* so a pending fetch is not aborted and loadHexagonData runs on.
Unmount ==
    /\ mounted
    /\ mounted' = FALSE
    /\ UNCHANGED <<showArcs, hexagonData, isLoading, arcData, loadPc, fetchCount, consoleErrors>>
    /\ UNCHANGED <<appVars, flowVars, pureVars, resizeVars, viewVars>>

----------------------------------------------------------------------------
(* Inputs: an X x X x Z array and an X x X matrix, zero except on a set of   *)
(* at most MaxHot entries                                                    *)

ArrCells(x, z) == (1..x) \X (1..x) \X (1..z)
MatCells(x) == (1..x) \X (1..x)

AllCells(x, z) == {<<"a", c>> : c \in ArrCells(x, z)} \cup {<<"m", c>> : c \in MatCells(x)}

HotSets(S) == {{}} \cup {{s[n] : n \in 1..MaxHot} : s \in [1..MaxHot -> S]}

FlowInputs ==
    \E x \in 0..MaxX, z \in 0..MaxZ :
      \E H \in HotSets(AllCells(x, z)) :
        \E f \in [H -> NonZeroVals] :
          /\ flux_thru_time =
               [X |-> x, Z |-> z,
                v |-> [c \in ArrCells(x, z) |->
                         IF <<"a", c>> \in H THEN f[<<"a", c>>] ELSE 0]]
          /\ flux = [c \in MatCells(x) |->
                         IF <<"m", c>> \in H THEN f[<<"m", c>>] ELSE 0]

\* migration_data <- create_migration_data(flux_thru_time, flux)
RunCreateMigrationData ==
    /\ migration_data.status = "unset"
    /\ migration_data' = create_migration_data(flux_thru_time, flux)
    /\ UNCHANGED <<flux_thru_time, flux, appVars, mapVars, viewVars, pureVars, resizeVars>>

----------------------------------------------------------------------------
(* Specifications *)

vars == <<flowVars, appVars, mapVars, viewVars, pureVars, resizeVars>>

\* the offline script on every bounded input; the page is not running
InitFlow ==
    /\ FlowInputs
    /\ migration_data = [status |-> "unset"]
    /\ InitApp
    /\ InitMap
    /\ InitView
    /\ InitResize
    /\ IdlePure
    /\ showArcs = FALSE

NextFlow == RunCreateMigrationData

SpecFlow == InitFlow /\ [][NextFlow]_vars

\* the page; the offline script is not running
Init ==
    /\ flux_thru_time = [X |-> 0, Z |-> 0, v |-> [c \in ArrCells(0, 0) |-> 0]]
    /\ flux = [c \in MatCells(0) |-> 0]
    /\ migration_data = [status |-> "unset"]
    /\ InitApp
    /\ InitMap
    /\ InitView
    /\ InitResize
    /\ IdlePure

Next ==
    \/ RunEffect
    \/ FetchResolve
    \/ FetchReject
    \/ JsonResolve
    \/ JsonReject
    \/ ClickAnyPoint
    \/ ToggleLeftSidebar
    \/ ToggleRightSidebar
    \/ ToggleArcs

Spec == Init /\ [][Next]_vars

\* the load of a component that may be torn down at any moment
NextTeardown ==
    \/ RunEffect
    \/ FetchResolve
    \/ FetchReject
    \/ JsonResolve
    \/ JsonReject
    \/ Unmount

SpecTeardown == Init /\ [][NextTeardown]_vars

\* the camera: the load with a dataset of no feature or a failure, then
\* view-state change events
EmptyCollection == [type |-> "FeatureCollection", features |-> <<>>]

NextView ==
    \/ RunEffect
    \/ FetchResolve
    \/ FetchReject
    \/ JsonResolveWith(EmptyCollection)
    \/ JsonReject
    \/ AnyViewStateChange

SpecView == Init /\ [][NextView]_vars

\* the load and the pointer moving over the layers
NextHover ==
    \/ RunEffect
    \/ FetchResolve
    \/ FetchReject
    \/ JsonResolve
    \/ JsonReject
    \/ HoverHexagon
    \/ HoverPoint

SpecHover == Init /\ [][NextHover]_vars

\* the visual encoding accessors on every bounded feature and weight
IdleFlow ==
    /\ flux_thru_time = [X |-> 0, Z |-> 0, v |-> [c \in ArrCells(0, 0) |-> 0]]
    /\ flux = [c \in MatCells(0) |-> 0]
    /\ migration_data = [status |-> "unset"]

InitEncoding ==
    /\ IdleFlow
    /\ InitApp
    /\ InitMap
    /\ InitView
    /\ InitResize
    /\ colorFeature \in ColorFeatures
    /\ fillColor = NoColor
    /\ arcWeight \in 0..MaxWeight
    /\ arcWidth = NoWidth
    /\ IdleReproject
    /\ IdleJoin
    /\ showArcs = FALSE

NextEncoding == EvalFillColor \/ EvalArcWidth

SpecEncoding == InitEncoding /\ [][NextEncoding]_vars

\* the reprojection script on every bounded table, in a fresh session or
\* in one that holds a coords_dt
InitReproject ==
    /\ IdleFlow
    /\ InitApp
    /\ InitMap
    /\ InitView
    /\ InitResize
    /\ IdleEncoding
    /\ coords \in CoordTables
    /\ coords_dt \in AmbientBindings
    /\ coords_wgs84_sf = <<>>
    /\ coords_wgs84_dt = NoTable
    /\ coords_wgs84_json = NoTable
    /\ reprojPc = "start"
    /\ IdleJoin
    /\ showArcs = FALSE

NextReproject == ReadAndTransform \/ ExtractTable \/ WriteOutputs

SpecReproject == InitReproject /\ [][NextReproject]_vars

\* the lookup and the join on every bounded hexagon dataset and flow set
InitJoin ==
    /\ IdleFlow
    /\ InitApp
    /\ InitMap
    /\ InitView
    /\ InitResize
    /\ IdleEncoding
    /\ IdleReproject
    /\ joinFeatures \in JoinFeatureLists
    /\ joinFlows \in FlowLists
    /\ centroidLookup = [key \in {} |-> <<>>]
    /\ flowsWithCoords = <<>>
    /\ joinWarnings = 0
    /\ joinPc = "loaded"
    /\ showArcs = FALSE

NextJoin == ComputeCentroidLookup \/ ComputeJoin

SpecJoin == InitJoin /\ [][NextJoin]_vars

\* the resize handles: the load of a dataset without features or a failed
\* load, point clicks (the left handle needs a selection), and the mouse
NextResize ==
    \/ RunEffect
    \/ FetchResolve
    \/ FetchReject
    \/ JsonResolveWith(EmptyCollection)
    \/ JsonReject
    \/ ClickAnyPoint
    \/ MouseDownOnHandle
    \/ AnyMouseMove
    \/ MouseUp

SpecResize == Init /\ [][NextResize]_vars

\* the fetch and the decoding of its body settle: each pending step of
\* loadHexagonData is eventually taken
SpecLive ==
    /\ Spec
    /\ WF_vars(RunEffect)
    /\ WF_vars(FetchResolve \/ FetchReject)
    /\ WF_vars(JsonResolve \/ JsonReject)

----------------------------------------------------------------------------
(* Properties of create_migration_data, checked under SpecFlow *)

Returned == migration_data.status = "ok"

\* every list of edges the call returned: the time-series entries and the
\* average set
EmittedLists ==
    {migration_data.time_series[t] : t \in DOMAIN migration_data.time_series}
        \cup {migration_data.average_flux}

EdgesOf(L) == {L[k] : k \in DOMAIN L}

OffDiagonal(X) == {p \in (1..X) \X (1..X) : p[1] # p[2]}

\* the edges the entries of time step t call for
SliceEdges(t) ==
    {[source_id |-> ToString(p[1]), target_id |-> ToString(p[2]),
      value |-> flux_thru_time.v[<<p[1], p[2], t>>]] :
        p \in {q \in OffDiagonal(flux_thru_time.X) :
                 flux_thru_time.v[<<q[1], q[2], t>>] > 0}}

\* the edges the average matrix calls for
AverageEdges ==
    {[source_id |-> ToString(p[1]), target_id |-> ToString(p[2]), value |-> flux[p]] :
        p \in {q \in OffDiagonal(flux_thru_time.X) : flux[q] > 0}}

\* the region index an identifier stands for
IdIndex(id) == CHOOSE i \in 0..(MaxX + 1) : ToString(i) = id

\* C1: no emitted edge, in any time-series entry or in the average set, has
\* source_id equal to target_id, and none has value <= 0.
C1_NoSelfLoopNoNonPositive ==
    Returned =>
        \A L \in EmittedLists : \A k \in DOMAIN L :
            L[k].source_id # L[k].target_id /\ L[k].value > 0

\* C1 witness: the call returned on an input with a positive diagonal entry
\* in the array and a negative off-diagonal entry in the average matrix.
C1_Witness ==
    /\ Returned
    /\ \E c \in DOMAIN flux_thru_time.v : c[1] = c[2] /\ flux_thru_time.v[c] > 0
    /\ \E p \in OffDiagonal(flux_thru_time.X) : flux[p] < 0

\* C2: for every time step t the entry for t holds exactly one edge per
\* ordered pair of distinct regions whose array entry is > 0, no other edge,
\* and each edge carries the array entry as its value.
C2_ExactlyPositivePairs ==
    Returned =>
        \A t \in 1..flux_thru_time.Z :
            /\ t \in DOMAIN migration_data.time_series
            /\ EdgesOf(migration_data.time_series[t]) = SliceEdges(t)
            /\ Len(migration_data.time_series[t]) = Cardinality(SliceEdges(t))

\* C2 witness: a returned time step that has an edge and also a zero
\* off-diagonal entry that has none.
C2_Witness ==
    /\ Returned
    /\ \E t \in 1..flux_thru_time.Z :
         /\ Len(migration_data.time_series[t]) >= 1
         /\ \E p \in OffDiagonal(flux_thru_time.X) :
              flux_thru_time.v[<<p[1], p[2], t>>] = 0

\* the scenario of C3: one time step with flux matrix [[0,5],[3,0]]
C3_Scenario ==
    /\ flux_thru_time.X = 2
    /\ flux_thru_time.Z = 1
    /\ flux_thru_time.v[<<1, 1, 1>>] = 0
    /\ flux_thru_time.v[<<1, 2, 1>>] = 5
    /\ flux_thru_time.v[<<2, 1, 1>>] = 3
    /\ flux_thru_time.v[<<2, 2, 1>>] = 0

\* C3: the identifiers of an emitted edge are the 1-based row (source) and
\* column (target) of its entry, as strings; [[0,5],[3,0]] at one time step
\* yields exactly ("1","2",5) and ("2","1",3).
C3_OneBasedStringIds ==
    Returned =>
        /\ \A t \in DOMAIN migration_data.time_series :
             \A k \in DOMAIN migration_data.time_series[t] :
               \E i \in 1..flux_thru_time.X, j \in 1..flux_thru_time.X :
                 /\ migration_data.time_series[t][k].source_id = ToString(i)
                 /\ migration_data.time_series[t][k].target_id = ToString(j)
                 /\ migration_data.time_series[t][k].value = flux_thru_time.v[<<i, j, t>>]
        /\ C3_Scenario =>
             /\ Len(migration_data.time_series) = 1
             /\ Len(migration_data.time_series[1]) = 2
             /\ EdgesOf(migration_data.time_series[1]) =
                  { [source_id |-> "1", target_id |-> "2", value |-> 5],
                    [source_id |-> "2", target_id |-> "1", value |-> 3] }

\* C3 witness: the call returned on the scenario's input.
C3_Witness == Returned /\ C3_Scenario

\* C4 (as claimed): the call yields one entry per time step, in time-step
\* order, entry t holding only edges of slice t; zero time steps yield the
\* empty sequence.
C4_OneEntryPerTimeStep ==
    migration_data.status # "unset" =>
        /\ Returned
        /\ Len(migration_data.time_series) = flux_thru_time.Z
        /\ \A t \in 1..flux_thru_time.Z :
             EdgesOf(migration_data.time_series[t]) \subseteq SliceEdges(t)

\* C5: the average set is exactly the positive off-diagonal entries of the
\* average matrix, each once with its value, whatever the 3-D array holds.
C5_AverageFluxExact ==
    Returned =>
        /\ EdgesOf(migration_data.average_flux) = AverageEdges
        /\ Len(migration_data.average_flux) = Cardinality(AverageEdges)

\* C5 witness: a returned average set with an edge, from an input whose 3-D
\* array has a positive off-diagonal entry of its own.
C5_Witness ==
    /\ Returned
    /\ Len(migration_data.average_flux) >= 1
    /\ \E c \in DOMAIN flux_thru_time.v : c[1] # c[2] /\ flux_thru_time.v[c] > 0

----------------------------------------------------------------------------
(* Properties of the page, checked under Spec *)

LoadPending == loadPc \in {"mounted", "fetch", "json"}

\* C7: a click on a marker that is not the selected point selects it and
\* opens the left panel; a click on the selected point clears the selection
\* and closes the left panel.
C7_PointClickToggles ==
    [][\A n \in 1..NumPoints :
         ClickPoint(pointData[n]) =>
            IF selectedPoint = pointData[n]
            THEN selectedPoint' = Null /\ showLeftSidebar' = FALSE
            ELSE selectedPoint' = pointData[n] /\ showLeftSidebar' = TRUE]_vars

\* C7 witness: a click has selected a point and opened the left panel.
C7_Witness ==
    /\ selectedPoint # Null
    /\ showLeftSidebar
    /\ LayerRendered("point-layer")

\* C8 (as claimed): after a failed load no hexagon feature is rendered, an
\* error is logged, and the point layer is rendered.
C8_FailedLoadKeepsPointLayer ==
    loadPc = "failed" =>
        /\ HexagonFeaturesRendered = 0
        /\ "Error loading hexagon data:" \in consoleErrors
        /\ LayerRendered("point-layer")

\* C9: while the load is pending the component shows the loading
\* placeholder and hands no layer to the rendering surface.
C9_PlaceholderWhilePending ==
    LoadPending =>
        /\ Rendered.view = "Loading map data..."
        /\ Rendered.layers = <<>>

\* C9 witness: the fetch has resolved and the body is being decoded.
C9_Witness == loadPc = "json" /\ fetchCount = 1

\* C10 (as claimed): the load is attempted once; after a failure the hexagon
\* dataset and the arc data hold their initial values; once the load has
\* settled the loading flag is false.
C10_LoadOnceFailureKeepsInitial ==
    /\ fetchCount <= 1
    /\ loadPc = "failed" => hexagonData = Null /\ arcData = <<>>
    /\ loadPc \in {"loaded", "failed"} => ~isLoading

\* the parts of C10 the code does meet: one fetch, the flag never set again,
\* and (under SpecLive) the flag eventually false for good
LoadAttemptedOnce == fetchCount <= 1 /\ (loadPc # "mounted" => fetchCount = 1)
LoadingNeverRestarts == [][~isLoading => ~isLoading']_vars
LoadingEventuallyEnds == <>[](~isLoading)

----------------------------------------------------------------------------
(* Properties of the load under teardown, checked under SpecTeardown *)

----------------------------------------------------------------------------
(* Properties of the page state, checked under Spec *)

C20_LeftOpenImpliesSelected == showLeftSidebar => selectedPoint # Null

\* C20 witness: the converse fails: a point is selected and the left panel
\* has been collapsed with its toggle.
C20_Witness ==
    /\ selectedPoint # Null
    /\ ~showLeftSidebar
    /\ LayerRendered("point-layer")

----------------------------------------------------------------------------
(* Properties of the camera, checked under SpecView *)

\* C12: on every view-state change event each of the five camera fields
\* becomes the event's value when the event carries the field, and keeps
\* its previous value when it does not.
C12_CameraMerge ==
    [][\A ev \in ViewEvents :
          OnViewStateChange(ev) =>
              \A f \in CameraFields :
                  viewState'[f] = IF f \in DOMAIN ev THEN ev[f] ELSE viewState[f]]_vars

\* C12 witness: events have set longitude to 0 and zoom to 7 while pitch
\* and latitude, carried by no event, still have their initial values.
C12_Witness ==
    /\ viewState.longitude = 0
    /\ viewState.zoom = 7
    /\ viewState.pitch = INITIAL_VIEW_STATE.pitch
    /\ viewState.latitude = INITIAL_VIEW_STATE.latitude
    /\ Rendered.view = "DeckGL"

----------------------------------------------------------------------------
(* Properties of the hover state, checked under SpecHover *)

\* C19: every step that changes the hexagon dataset (the first load
\* included) ends with the point and the hexagon hover states null, and a
\* hexagon hover state always holds a feature of the current dataset.
C19_HoverClearOnDatasetChange ==
    [][/\ hexagonData' # hexagonData =>
            pointHoverInfo' = Null /\ hexagonHoverInfo' = Null
       /\ hexagonHoverInfo' # Null =>
            /\ "features" \in DOMAIN hexagonData'
            /\ \E k \in 1..Len(hexagonData'.features) :
                   hexagonData'.features[k] = hexagonHoverInfo'.object]_vars

\* C19 witness: the dataset went from not loaded to loaded, and after that
\* the pointer came over a hexagon and over a point.
C19_Witness ==
    /\ loadPc = "loaded"
    /\ hexagonData # Null
    /\ hexagonHoverInfo # Null
    /\ pointHoverInfo # Null

----------------------------------------------------------------------------
(* Properties of the visual encoding, checked under SpecEncoding *)

\* the continent_id a feature carries, "" standing for none
CarriedContinentId ==
    IF /\ "properties" \in DOMAIN colorFeature
       /\ colorFeature.properties # Null
       /\ "continent_id" \in DOMAIN colorFeature.properties
    THEN colorFeature.properties.continent_id
    ELSE ""

\* C16: the fill colour of a feature is the table's RGBA value when its
\* continent_id is one of EU, AS_N, AS_S, AF_N, AF_S, ME, and the gray
\* [128,128,128,40] in every other case, a missing continent_id and missing
\* properties included.
C16_FillColorTable ==
    fillColor # NoColor =>
        fillColor =
            LET Table == [EU |-> <<65, 105, 225, 40>>, AS_N |-> <<220, 20, 60, 40>>,
                          AS_S |-> <<255, 140, 0, 40>>, AF_N |-> <<154, 205, 50, 40>>,
                          AF_S |-> <<138, 43, 226, 40>>, ME |-> <<64, 224, 208, 40>>]
            IN IF CarriedContinentId \in DOMAIN Table
               THEN Table[CarriedContinentId]
               ELSE <<128, 128, 128, 40>>

\* C16 witness: the colour of a Middle East feature has been computed.
C16_Witness ==
    /\ CarriedContinentId = "ME"
    /\ fillColor = <<64, 224, 208, 40>>

\* C17: the width scales with the square root of the weight: four times the
\* weight gives twice the width gained over the width at weight 0.
C17_WidthScalesWithSqrt ==
    arcWidth # NoWidth =>
        getWidth(4 * arcWeight) - getWidth(0) = 2 * (arcWidth - getWidth(0))

----------------------------------------------------------------------------
(* Properties of the reprojection script, checked under SpecReproject *)

\* the k-th input point and the k-th record of a table agree on the node id
\* and the record has the point's longitude and latitude
SamePoint(k, id, lon, lat) ==
    /\ id = coords[k].node_id
    /\ lon = TransformRow(coords[k]).lon
    /\ lat = TransformRow(coords[k]).lat

\* C18: when the script has ended, the extracted table and the written
\* records each have exactly one record per input point, in order, with
\* that point's node id, longitude and latitude.
C18_OneRecordPerInputPoint ==
    reprojPc \in {"written", "halted"} =>
        /\ Len(coords_wgs84_dt.rows) = Len(coords)
        /\ Len(coords_wgs84_json.rows) = Len(coords)
        /\ \A k \in 1..Len(coords) :
              /\ SamePoint(k, coords_wgs84_dt.rows[k].node_id,
                           coords_wgs84_dt.rows[k].lon, coords_wgs84_dt.rows[k].lat)
              /\ SamePoint(k, coords_wgs84_json.rows[k].node_id,
                           coords_wgs84_json.rows[k].longitude,
                           coords_wgs84_json.rows[k].latitude)

----------------------------------------------------------------------------
(* Properties of the lookup and the join, checked under SpecJoin *)

\* C14: every record the join outputs has both its ids in the centroid
\* lookup, every input record with an id outside the lookup is missing from
\* the output (the output holds as many records as the input has resolved
\* ones), and the output is no longer than the input.
C14_JoinDropsUnresolved ==
    joinPc = "joined" =>
        /\ \A k \in 1..Len(flowsWithCoords) :
              /\ flowsWithCoords[k].source_id \in DOMAIN centroidLookup
              /\ flowsWithCoords[k].target_id \in DOMAIN centroidLookup
              /\ flowsWithCoords[k].source = centroidLookup[flowsWithCoords[k].source_id]
              /\ flowsWithCoords[k].target = centroidLookup[flowsWithCoords[k].target_id]
        /\ Len(flowsWithCoords) =
              Cardinality({k \in 1..Len(joinFlows) :
                              /\ joinFlows[k].source_id \in DOMAIN centroidLookup
                              /\ joinFlows[k].target_id \in DOMAIN centroidLookup})
        /\ Len(flowsWithCoords) <= Len(joinFlows)

\* C14 witness: of two flow records one resolved and was kept, the other
\* had an id with no centroid and was dropped.
C14_Witness ==
    /\ joinPc = "joined"
    /\ Len(joinFlows) = 2
    /\ Len(flowsWithCoords) = 1
    /\ \E k \in 1..2 : joinFlows[k].target_id \notin DOMAIN centroidLookup

\* C15: a feature with null geometry or without state_id leaves no entry in
\* the lookup: every entry is the centroid of a feature that has both, stored
\* under that feature's state_id; and the features that have both all get
\* their entry, whatever the others are.
C15_InvalidFeaturesSkipped ==
    joinPc \in {"lookup", "joined"} =>
        /\ \A key \in DOMAIN centroidLookup :
              \E k \in 1..Len(joinFeatures) :
                  /\ joinFeatures[k].geometry # Null
                  /\ "state_id" \in DOMAIN joinFeatures[k].properties
                  /\ ToString(joinFeatures[k].properties.state_id) = key
                  /\ centroidLookup[key] = <<20 * k, 2 * k>>
        /\ \A k \in 1..Len(joinFeatures) :
              (/\ joinFeatures[k].geometry # Null
               /\ "state_id" \in DOMAIN joinFeatures[k].properties)
                  => ToString(joinFeatures[k].properties.state_id) \in DOMAIN centroidLookup

\* C15 witness: the first feature has no state_id and was skipped, the
\* second one has geometry and id and is in the lookup.
C15_Witness ==
    /\ joinPc = "lookup"
    /\ Len(joinFeatures) = 2
    /\ joinFeatures[1].geometry # Null
    /\ "state_id" \notin DOMAIN joinFeatures[1].properties
    /\ DOMAIN centroidLookup = {"2"}
    /\ joinWarnings = 1

----------------------------------------------------------------------------
(* Further properties of the page state, checked under Spec *)

\* C23: with a point selected and the left panel collapsed by its toggle, a
\* click on another point selects that point and opens the panel, and a
\* click on the selected point clears the selection and leaves the panel
\* closed.
C23_ClickAfterCollapse ==
    [][\A n \in 1..NumPoints :
          (/\ ClickPoint(pointData[n])
           /\ selectedPoint # Null
           /\ ~showLeftSidebar)
              => IF selectedPoint.node_id = pointData[n].node_id
                 THEN selectedPoint' = Null /\ ~showLeftSidebar'
                 ELSE selectedPoint' = pointData[n] /\ showLeftSidebar']_vars

\* C23 witness: the second point is selected and its panel is collapsed, with
\* the markers on screen to click.
C23_Witness ==
    /\ selectedPoint # Null
    /\ selectedPoint.node_id = 2
    /\ ~showLeftSidebar
    /\ Rendered.view = "DeckGL"
    /\ LayerRendered("point-layer")

\* C24: the right panel starts open and the left panel closed with no point
\* selected; a step that changes the right panel's flag changes neither the
\* left panel's flag nor the selection, and a point click or a left toggle
\* never changes the right panel's flag.
C24_RightPanelFrame ==
    /\ showRightSidebar = TRUE
    /\ showLeftSidebar = FALSE
    /\ selectedPoint = Null
    /\ [][/\ showRightSidebar' # showRightSidebar =>
               UNCHANGED <<showLeftSidebar, selectedPoint>>
          /\ (ClickAnyPoint \/ ToggleLeftSidebar) => UNCHANGED showRightSidebar]_vars

\* C24 witness: the right panel has been closed and the left side is as it
\* started.
C24_Witness ==
    /\ ~showRightSidebar
    /\ ~showLeftSidebar
    /\ selectedPoint = Null

\* C25: the layer list is empty while the hexagon dataset is not loaded, and
\* otherwise it is the hexagon layer, then the point layer, then the arc
\* layer exactly when showArcs is true.
C25_LayerList ==
    [k \in 1..Len(layers) |-> layers[k].id] =
        IF hexagonData = Null THEN <<>>
        ELSE IF showArcs THEN <<"hexagon-layer", "point-layer", "arc-layer">>
        ELSE <<"hexagon-layer", "point-layer">>

\* C25 witness: a loaded dataset with showArcs true: three layers.
C25_Witness ==
    /\ hexagonData # Null
    /\ showArcs
    /\ Len(layers) = 3
    /\ loadPc = "loaded"

\* the centerpoints of the features of the loaded dataset that carry a
\* non-null centerpoint with longitude and latitude, one per such feature
ValidCenterIndexes ==
    {k \in 1..Len(hexagonData.features) :
        LET p == hexagonData.features[k].properties
        IN /\ p # Null
           /\ "centerpoint" \in DOMAIN p
           /\ p.centerpoint # Null
           /\ {"longitude", "latitude"} \subseteq DOMAIN p.centerpoint}

ValidCenters ==
    {<<hexagonData.features[k].properties.centerpoint.longitude,
       hexagonData.features[k].properties.centerpoint.latitude>> :
        k \in ValidCenterIndexes}

\* C26: the arcs generated for a loaded dataset are none when fewer than two
\* features are valid, and otherwise exactly `count` arcs, each with source
\* and target among the centerpoints of the valid features.
C26_RandomArcs ==
    loadPc = "loaded" =>
        IF Cardinality(ValidCenterIndexes) < 2
        THEN arcData = <<>>
        ELSE /\ Len(arcData) = ArcCount
             /\ \A k \in 1..Len(arcData) :
                   /\ arcData[k].source \in ValidCenters
                   /\ arcData[k].target \in ValidCenters

\* C26 witness: `count` arcs were generated and one of them has the same
\* feature as source and target.
C26_Witness ==
    /\ loadPc = "loaded"
    /\ Len(arcData) = ArcCount
    /\ \E k \in 1..Len(arcData) : arcData[k].source = arcData[k].target

----------------------------------------------------------------------------
(* Properties of the resize handles, checked under SpecResize *)

\* C21: both sidebar widths start at 320 and stay within [200, 600], and a
\* mouse move during a drag sets the width of the dragged sidebar to the
\* width derived from the pointer (clientX on the left, innerWidth - clientX
\* on the right), brought into that range.
C21_WidthsClamped ==
    /\ leftSidebarWidth = 320
    /\ rightSidebarWidth = 320
    /\ [](/\ leftSidebarWidth >= 200 /\ leftSidebarWidth <= 600
          /\ rightSidebarWidth >= 200 /\ rightSidebarWidth <= 600)
    /\ [][\A x \in ClientXs :
             MouseMove(x) =>
                /\ "left" \in handlesPressed =>
                      leftSidebarWidth' =
                         IF x < 200 THEN 200 ELSE IF x > 600 THEN 600 ELSE x
                /\ "right" \in handlesPressed =>
                      rightSidebarWidth' =
                         IF InnerWidth - x < 200 THEN 200
                         ELSE IF InnerWidth - x > 600 THEN 600 ELSE InnerWidth - x]_vars

\* C21 witness: a drag pulled the left sidebar to the upper limit and a drag
\* pushed the right sidebar to the lower limit.
C21_Witness ==
    /\ leftSidebarWidth = 600
    /\ rightSidebarWidth = 200

\* C22: isResizing is true exactly while a handle has been pressed and the
\* mouse not yet released; a step changes the width of a sidebar only while
\* that sidebar's handle is pressed, so the other width and, after the
\* mouse-up, both widths stay as they are until a new mouse-down.
C22_DragBracketed ==
    /\ [](isResizing <=> handlesPressed # {})
    /\ [][/\ leftSidebarWidth' # leftSidebarWidth => "left" \in handlesPressed
          /\ rightSidebarWidth' # rightSidebarWidth => "right" \in handlesPressed]_vars

\* C22 witness: the left handle is pressed and the drag has moved the left
\* width while the right width is still the default.
C22_Witness ==
    /\ isResizing
    /\ handlesPressed = {"left"}
    /\ leftSidebarWidth = 450
    /\ rightSidebarWidth = DEFAULT_SIDEBAR_WIDTH

====
